---- MODULE Spec2Model ----
\* HostapdManager (libwifi_system/hostapd_manager.cpp): StartHostapd and
\* StopHostapd, each a property_get of init.svc.hostapd followed by at most
\* one property_set of ctl.start / ctl.stop.  Calls run concurrently; every
\* access of the property store is one atomic step, and init changes the
\* status property between the steps of a call.
EXTENDS Integers, Sequences, FiniteSets, TLC

\* Number of concurrent calls of StartHostapd / StopHostapd.
NumCalls == 2

Calls == 1..NumCalls

\* hostapd_manager.cpp:24-25
kHostapdServiceName == "hostapd"
kHostapdFullServiceName == "init.svc.hostapd"

\* Values of init.svc.hostapd: unset/empty, the two terminal states and a
\* transitional one.
StatusValues == {"", "running", "stopped", "restarting"}

\* Values property_set can return (an int): a negative error, 0, a positive code.
SetResults == {-1, 0, 1}

VARIABLES
  props,           \* the property store: key -> value
  pc,              \* per call: "idle", "start_set", "stop_set", "done"
  op,              \* per call: "none", "StartHostapd", "StopHostapd"
  hostapd_status,  \* per call: the local buffer filled by property_get
  reads,           \* per call: number of property_get calls made
  ctl_writes,      \* per call: the property_set calls made, in order
  ret              \* per call: the value returned (meaningful when pc = "done")

vars == <<props, pc, op, hostapd_status, reads, ctl_writes, ret>>

\* property_get(key, value, default_value): the stored value, or the default
\* when the key is unset or its value is empty.
property_get(key, default_value) ==
  IF key \in DOMAIN props /\ props[key] # "" THEN props[key] ELSE default_value

\* Calls other than c that have read the status and not yet written.
InFlight(c) == {d \in Calls \ {c} : pc[d] \in {"start_set", "stop_set"}}

\* property_set(key, value) by call c with result r: the write is recorded with
\* the status at the time of the write and whether another call was then
\* between its read and its write; a successful write of an ordinary
\* (non ctl.*) key changes the store, a ctl.* key is a command to init.
property_set(c, key, value, r) ==
  /\ ctl_writes' = [ctl_writes EXCEPT ![c] = Append(@,
         [key |-> key, value |-> value, result |-> r,
          status |-> props[kHostapdFullServiceName],
          overlapped |-> InFlight(c) # {}])]
  /\ props' = IF r = 0 /\ key \in DOMAIN props
                THEN [props EXCEPT ![key] = value]
                ELSE props

\* strcmp(hostapd_status, "running") == 0
StartSkipsStopped(s) == s = "stopped"
StartSkipsNever(s) == FALSE
StartSkips(s) == s = "running"

\* !strlen(hostapd_status) || strcmp(hostapd_status, "stopped") == 0
StopSkipsNoEmpty(s) == s = "stopped"
StopSkips(s) == s = "" \/ s = "stopped"

\* property_set("ctl.start", ...) != 0
StartSetFailedNegative(r) == r < 0
StartSetFailed(r) == r # 0

\* property_set("ctl.stop", ...) < 0
StopSetFailed(r) == r < 0

Init ==
  /\ props \in [{kHostapdFullServiceName} -> StatusValues]
  /\ pc = [c \in Calls |-> "idle"]
  /\ op = [c \in Calls |-> "none"]
  /\ hostapd_status = [c \in Calls |-> ""]
  /\ reads = [c \in Calls |-> 0]
  /\ ctl_writes = [c \in Calls |-> <<>>]
  /\ ret = [c \in Calls |-> FALSE]

\* StartHostapd, lines 30-36: read the status; return true when it is "running".
StartGetEmptyFails(c) ==
  /\ pc[c] = "idle"
  /\ op' = [op EXCEPT ![c] = "StartHostapd"]
  /\ hostapd_status' = [hostapd_status EXCEPT
                          ![c] = property_get(kHostapdFullServiceName, "")]
  /\ reads' = [reads EXCEPT ![c] = @ + 1]
  /\ IF StartSkips(hostapd_status'[c])
       THEN pc' = [pc EXCEPT ![c] = "done"] /\ ret' = [ret EXCEPT ![c] = TRUE]
       ELSE IF hostapd_status'[c] = ""
         THEN pc' = [pc EXCEPT ![c] = "done"] /\ ret' = [ret EXCEPT ![c] = FALSE]
         ELSE pc' = [pc EXCEPT ![c] = "start_set"] /\ UNCHANGED ret
  /\ UNCHANGED <<props, ctl_writes>>
StartGet(c) ==
  /\ pc[c] = "idle"
  /\ op' = [op EXCEPT ![c] = "StartHostapd"]
  /\ hostapd_status' = [hostapd_status EXCEPT
                          ![c] = property_get(kHostapdFullServiceName, "")]
  /\ reads' = [reads EXCEPT ![c] = @ + 1]
  /\ IF StartSkips(hostapd_status'[c])
       THEN pc' = [pc EXCEPT ![c] = "done"] /\ ret' = [ret EXCEPT ![c] = TRUE]
       ELSE pc' = [pc EXCEPT ![c] = "start_set"] /\ UNCHANGED ret
  /\ UNCHANGED <<props, ctl_writes>>

\* StartHostapd, lines 38-44: write ctl.start; false when the result is not 0.
StartSetRetry(c) ==
  /\ pc[c] = "start_set"
  /\ \E r \in SetResults :
       /\ property_set(c, "ctl.start", kHostapdServiceName, r)
       /\ ret' = [ret EXCEPT ![c] = ~StartSetFailed(r)]
       /\ pc' = [pc EXCEPT ![c] = IF StartSetFailed(r) /\ Len(ctl_writes[c]) = 0
                                    THEN "start_set" ELSE "done"]
  /\ UNCHANGED <<op, hostapd_status, reads>>
StartSetWaits(c) ==
  /\ pc[c] = "start_set"
  /\ \E r \in SetResults :
       /\ property_set(c, "ctl.start", kHostapdServiceName, r)
       /\ hostapd_status' = [hostapd_status EXCEPT
                               ![c] = property_get(kHostapdFullServiceName, "")]
       /\ ret' = [ret EXCEPT ![c] = ~StartSetFailed(r)
                                      /\ hostapd_status'[c] = "running"]
  /\ reads' = [reads EXCEPT ![c] = @ + 1]
  /\ pc' = [pc EXCEPT ![c] = "done"]
  /\ UNCHANGED op
StartSet(c) ==
  /\ pc[c] = "start_set"
  /\ \E r \in SetResults :
       /\ property_set(c, "ctl.start", kHostapdServiceName, r)
       /\ ret' = [ret EXCEPT ![c] = ~StartSetFailed(r)]
  /\ pc' = [pc EXCEPT ![c] = "done"]
  /\ UNCHANGED <<op, hostapd_status, reads>>

\* StopHostapd, lines 51-57: read the status; return true when it is empty
\* or "stopped".
StopGet(c) ==
  /\ pc[c] = "idle"
  /\ op' = [op EXCEPT ![c] = "StopHostapd"]
  /\ hostapd_status' = [hostapd_status EXCEPT
                          ![c] = property_get(kHostapdFullServiceName, "")]
  /\ reads' = [reads EXCEPT ![c] = @ + 1]
  /\ IF StopSkips(hostapd_status'[c])
       THEN pc' = [pc EXCEPT ![c] = "done"] /\ ret' = [ret EXCEPT ![c] = TRUE]
       ELSE pc' = [pc EXCEPT ![c] = "stop_set"] /\ UNCHANGED ret
  /\ UNCHANGED <<props, ctl_writes>>

\* StopHostapd, lines 59-65: write ctl.stop; false when the result is negative.
StopSetRetry(c) ==
  /\ pc[c] = "stop_set"
  /\ \E r \in SetResults :
       /\ property_set(c, "ctl.stop", kHostapdServiceName, r)
       /\ ret' = [ret EXCEPT ![c] = ~StopSetFailed(r)]
       /\ pc' = [pc EXCEPT ![c] = IF StopSetFailed(r) /\ Len(ctl_writes[c]) = 0
                                    THEN "stop_set" ELSE "done"]
  /\ UNCHANGED <<op, hostapd_status, reads>>
StopSetWrongKey(c) ==
  /\ pc[c] = "stop_set"
  /\ \E r \in SetResults :
       /\ property_set(c, "ctl.start", kHostapdServiceName, r)
       /\ ret' = [ret EXCEPT ![c] = ~StopSetFailed(r)]
  /\ pc' = [pc EXCEPT ![c] = "done"]
  /\ UNCHANGED <<op, hostapd_status, reads>>
StopSet(c) ==
  /\ pc[c] = "stop_set"
  /\ \E r \in SetResults :
       /\ property_set(c, "ctl.stop", kHostapdServiceName, r)
       /\ ret' = [ret EXCEPT ![c] = ~StopSetFailed(r)]
  /\ pc' = [pc EXCEPT ![c] = "done"]
  /\ UNCHANGED <<op, hostapd_status, reads>>

\* init (the supervisor) changes init.svc.hostapd; the property is never unset
\* again once it has a value.
Supervisor ==
  /\ \E s \in StatusValues \ {"", props[kHostapdFullServiceName]} :
       props' = [props EXCEPT ![kHostapdFullServiceName] = s]
  /\ UNCHANGED <<pc, op, hostapd_status, reads, ctl_writes, ret>>

Next ==
  \/ \E c \in Calls : StartGet(c)
  \/ \E c \in Calls : StartSet(c)
  \/ \E c \in Calls : StopGet(c)
  \/ \E c \in Calls : StopSet(c)
  \/ Supervisor

Spec == Init /\ [][Next]_vars

-----------------------------------------------------------------------------
\* Vocabulary of the properties below.

Returned(c, o) == pc[c] = "done" /\ op[c] = o
NumWrites(c) == Len(ctl_writes[c])
IsWrite(w, key) == w.key = key /\ w.value = "hostapd"

RECURSIVE TotalWrites(_)
TotalWrites(S) ==
  IF S = {} THEN 0
  ELSE LET c == CHOOSE x \in S : TRUE IN NumWrites(c) + TotalWrites(S \ {c})

\* C1: a StopHostapd call whose status read is neither "stopped" nor empty
\* issues exactly one write ("ctl.stop", "hostapd") and returns true iff the
\* write result is 0 (every non-zero result yields false).
C1_StopTrueIffWriteZero ==
  \A c \in Calls :
    (Returned(c, "StopHostapd") /\ hostapd_status[c] \notin {"stopped", ""})
      => /\ NumWrites(c) = 1
         /\ IsWrite(ctl_writes[c][1], "ctl.stop")
         /\ (ret[c] <=> ctl_writes[c][1].result = 0)

\* C2: a StartHostapd call whose status read is anything but "running" issues
\* exactly one write ("ctl.start", "hostapd") and returns true iff the write
\* result is 0.
C2_StartTrueIffWriteZero ==
  \A c \in Calls :
    (Returned(c, "StartHostapd") /\ hostapd_status[c] # "running")
      => /\ NumWrites(c) = 1
         /\ IsWrite(ctl_writes[c][1], "ctl.start")
         /\ (ret[c] <=> ctl_writes[c][1].result = 0)

\* A StartHostapd call read the empty status and was refused with a positive
\* result, another read a transitional status and succeeded.
C2_Witness ==
  \E c, d \in Calls :
    /\ Returned(c, "StartHostapd") /\ hostapd_status[c] = ""
    /\ NumWrites(c) = 1 /\ ctl_writes[c][1].result = 1 /\ ret[c] = FALSE
    /\ Returned(d, "StartHostapd") /\ hostapd_status[d] = "restarting"
    /\ NumWrites(d) = 1 /\ ctl_writes[d][1].result = 0 /\ ret[d] = TRUE

\* C3 (as claimed): no ctl.start is written while the status is "running" and
\* no ctl.stop while the status is "stopped" or empty, the status being the
\* one in the store at the time of the write.
C3_NoWriteInTerminalState ==
  \A c \in Calls : \A i \in 1..NumWrites(c) :
    /\ ctl_writes[c][i].key = "ctl.start" => ctl_writes[c][i].status # "running"
    /\ ctl_writes[c][i].key = "ctl.stop"
         => ctl_writes[c][i].status \notin {"stopped", ""}

\* C3 (amended): no ctl.start is written by a call whose own status read was
\* "running" and no ctl.stop by a call whose own status read was "stopped" or
\* empty; a call that read such a status is never about to write either.
C3_NoWriteAfterTerminalRead ==
  \A c \in Calls :
    /\ \A i \in 1..NumWrites(c) :
         /\ ctl_writes[c][i].key = "ctl.start" => hostapd_status[c] # "running"
         /\ ctl_writes[c][i].key = "ctl.stop"
              => hostapd_status[c] \notin {"stopped", ""}
    /\ pc[c] = "start_set" => hostapd_status[c] # "running"
    /\ pc[c] = "stop_set" => hostapd_status[c] \notin {"stopped", ""}

\* The supervisor moved the status to the terminal state between a call's read
\* and its write: ctl.start written under "running" by a call that read
\* another value, ctl.stop written under "stopped" likewise.
C3_Witness ==
  \E c, d \in Calls :
    /\ NumWrites(c) = 1 /\ ctl_writes[c][1].key = "ctl.start"
    /\ ctl_writes[c][1].status = "running" /\ hostapd_status[c] # "running"
    /\ NumWrites(d) = 1 /\ ctl_writes[d][1].key = "ctl.stop"
    /\ ctl_writes[d][1].status = "stopped" /\ hostapd_status[d] = "running"

\* C4: a StartHostapd call whose status read is "running" returns true and
\* issues no write.
C4_StartIdempotent ==
  \A c \in Calls :
    (op[c] = "StartHostapd" /\ hostapd_status[c] = "running")
      => pc[c] = "done" /\ ret[c] = TRUE /\ NumWrites(c) = 0

\* A StartHostapd call read "running" and returned.
C4_Witness ==
  \E c \in Calls :
    /\ Returned(c, "StartHostapd") /\ hostapd_status[c] = "running"
    /\ ret[c] = TRUE /\ NumWrites(c) = 0 /\ reads[c] = 1

\* C5: a StopHostapd call whose status read is "stopped" or empty returns true
\* and issues no write.
C5_StopIdempotent ==
  \A c \in Calls :
    (op[c] = "StopHostapd" /\ hostapd_status[c] \in {"stopped", ""})
      => pc[c] = "done" /\ ret[c] = TRUE /\ NumWrites(c) = 0

\* One StopHostapd call read the empty status, another read "stopped"; both
\* returned.
C5_Witness ==
  \E c, d \in Calls :
    /\ Returned(c, "StopHostapd") /\ hostapd_status[c] = ""
    /\ ret[c] = TRUE /\ NumWrites(c) = 0
    /\ Returned(d, "StopHostapd") /\ hostapd_status[d] = "stopped"
    /\ ret[d] = TRUE /\ NumWrites(d) = 0

\* C6: a call that returned false issued exactly one write and that write was
\* rejected (non-zero result); StopHostapd on the empty status returns true
\* with no write; StartHostapd on the empty status issues the ctl.start write
\* and returns true when it succeeds.
C6_FalseOnlyOnRejectedWrite ==
  \A c \in Calls :
    /\ (pc[c] = "done" /\ ret[c] = FALSE)
         => NumWrites(c) = 1 /\ ctl_writes[c][1].result # 0
    /\ (Returned(c, "StopHostapd") /\ hostapd_status[c] = "")
         => ret[c] = TRUE /\ NumWrites(c) = 0
    /\ (Returned(c, "StartHostapd") /\ hostapd_status[c] = "")
         => /\ NumWrites(c) = 1 /\ IsWrite(ctl_writes[c][1], "ctl.start")
            /\ ctl_writes[c][1].result = 0 => ret[c] = TRUE

\* A StopHostapd call returned false after a rejected write while a
\* StartHostapd call that read the empty status returned true.
C6_Witness ==
  \E c, d \in Calls :
    /\ Returned(c, "StopHostapd") /\ ret[c] = FALSE
    /\ NumWrites(c) = 1 /\ ctl_writes[c][1].result = -1
    /\ Returned(d, "StartHostapd") /\ hostapd_status[d] = "" /\ ret[d] = TRUE
    /\ NumWrites(d) = 1 /\ ctl_writes[d][1].result = 0

\* C7: every call makes one status read and at most one write and then has
\* returned: a call between its read and its write can always take its write
\* step, and a call that has written or skipped has no further step, also
\* when the write was rejected.
C7_OneReadAtMostOneWrite ==
  \A c \in Calls :
    /\ reads[c] <= 1 /\ NumWrites(c) <= 1
    /\ pc[c] = "idle" => reads[c] = 0 /\ NumWrites(c) = 0
    /\ pc[c] = "start_set" => reads[c] = 1 /\ NumWrites(c) = 0 /\ ENABLED StartSet(c)
    /\ pc[c] = "stop_set" => reads[c] = 1 /\ NumWrites(c) = 0 /\ ENABLED StopSet(c)
    /\ NumWrites(c) = 1 => pc[c] = "done"
    /\ pc[c] = "done"
         => /\ reads[c] = 1
            /\ ~ ENABLED (StartGet(c) \/ StartSet(c) \/ StopGet(c) \/ StopSet(c))

\* A StartHostapd and a StopHostapd call both returned after a rejected write.
C7_Witness ==
  \E c, d \in Calls :
    /\ Returned(c, "StartHostapd") /\ NumWrites(c) = 1
    /\ ctl_writes[c][1].result = -1 /\ reads[c] = 1
    /\ Returned(d, "StopHostapd") /\ NumWrites(d) = 1
    /\ ctl_writes[d][1].result = -1 /\ reads[d] = 1

\* C8: the total number of control writes never exceeds the number of calls
\* made (one per call), in every interleaving.
C8_WritesAtMostCalls ==
  TotalWrites(Calls) <= Cardinality({c \in Calls : pc[c] # "idle"})

\* Two overlapping StartHostapd calls, no other call made: both read a status
\* other than "running", and the first wrote ctl.start while the second was
\* between its read and its write; the second wrote ctl.start too.
C8_Witness ==
  \E c, d \in Calls :
    /\ c # d
    /\ \A e \in Calls \ {c, d} : pc[e] = "idle"
    /\ Returned(c, "StartHostapd") /\ Returned(d, "StartHostapd")
    /\ hostapd_status[c] # "running" /\ hostapd_status[d] # "running"
    /\ NumWrites(c) = 1 /\ IsWrite(ctl_writes[c][1], "ctl.start")
    /\ NumWrites(d) = 1 /\ IsWrite(ctl_writes[d][1], "ctl.start")
    /\ ctl_writes[c][1].overlapped

\* C9: a call that wrote made no status read after the write (its one read
\* came before), and it returned true when the write result was 0, whatever
\* the status is afterwards.
C9_NoWaitForConvergence ==
  \A c \in Calls :
    NumWrites(c) >= 1
      => /\ reads[c] = 1
         /\ (pc[c] = "done" /\ ctl_writes[c][1].result = 0) => ret[c] = TRUE

\* StartHostapd returned true and StopHostapd returned true, each after a
\* successful write, while the status is neither "running" nor "stopped".
C9_Witness ==
  \E c, d \in Calls :
    /\ Returned(c, "StartHostapd") /\ ret[c] = TRUE
    /\ NumWrites(c) = 1 /\ ctl_writes[c][1].result = 0
    /\ Returned(d, "StopHostapd") /\ ret[d] = TRUE
    /\ NumWrites(d) = 1 /\ ctl_writes[d][1].result = 0
    /\ props[kHostapdFullServiceName] \notin {"running", "stopped"}

\* C10: StartHostapd writes only ("ctl.start", "hostapd"), StopHostapd only
\* ("ctl.stop", "hostapd"); no call writes the status key, whose value stays
\* one the supervisor set.
C10_Frame ==
  /\ \A c \in Calls : \A i \in 1..NumWrites(c) :
       /\ ctl_writes[c][i].value = "hostapd"
       /\ ctl_writes[c][i].key # "init.svc.hostapd"
       /\ op[c] = "StartHostapd" => ctl_writes[c][i].key = "ctl.start"
       /\ op[c] = "StopHostapd" => ctl_writes[c][i].key = "ctl.stop"
  /\ props["init.svc.hostapd"] \in StatusValues

\* A StartHostapd call and a StopHostapd call have each written successfully.
C10_Witness ==
  \E c, d \in Calls :
    /\ op[c] = "StartHostapd" /\ NumWrites(c) = 1 /\ ctl_writes[c][1].result = 0
    /\ op[d] = "StopHostapd" /\ NumWrites(d) = 1 /\ ctl_writes[d][1].result = 0

====
